---- MODULE Spec2Model ----
(***************************************************************************)
(* A model of lohex/PubMedAPI: the crawler (PubMedCrawler), the paginated  *)
(* search stream (PubMedSearch) and the cited-by traversal of              *)
(* PubMedArticle.                                                          *)
(*                                                                         *)
(* The environment is the PubMed server: a page fetch (sendQuery followed  *)
(* by extractResults) either raises or returns the rows of the requested   *)
(* page, and a detail fetch (PubMedArticle.load) either raises or returns  *)
(* the abstract.  The HTML parsing inside extractResults and the row       *)
(* constructor call are the page-parser capability and are modelled by     *)
(* their result, a list of rows; module imports are not modelled.          *)
(* (As written, extractResults passes five values per row to a constructor *)
(* that takes four, and PubMedCrawler imports Optional from types; the     *)
(* model takes a page as the rows it lists and the classes as importable.) *)
(*                                                                         *)
(* A generator is modelled at its suspension points: one action per        *)
(* resumption of scan_results (ScanStep) and one per run of the loop body  *)
(* of searchFor (Body).  SpecThreads runs the loop body of two searchFor   *)
(* calls on one crawler, statement by statement, under a caller's lock.    *)
(***************************************************************************)
EXTENDS Integers, Sequences, FiniteSets, TLC

\* ---------------------------------------------------------------- bounds
PageSize == 2
MaxSearches == 2
MaxLimit == 3
MaxScans == 2

\* ------------------------------------------------------------ environment
Min(a, b) == IF a <= b THEN a ELSE b
Max(a, b) == IF a >= b THEN a ELSE b

\* The search strings a caller passes to searchFor.
SearchStrings == {"a", "b", "c c"}

\* The search strings a consumer passes to search(): those and one term
\* with a single result.
StreamSearchStrings == SearchStrings \cup {"d"}

\* The term of the query get_latest builds (today's date with [edat]).
LatestTerm == "today[edat]"

\* Limits a caller passes (an int; Python accepts a negative one).
Limits == (-1)..MaxLimit

\* Python values passed as not_older_than: None, booleans and strings,
\* each a pair <<type, text>>.
PyNone == <<"NoneType", "None">>
PyTrue == <<"bool", "True">>
PyFalse == <<"bool", "False">>
PyStr(s) == <<"str", s>>
NotOlderThanValues ==
    {PyNone, PyTrue, PyFalse, PyStr(""), PyStr("1_year"), PyStr("5_years"),
     PyStr("10_years"), PyStr("2_years")}

\* Python truthiness of such a value.
Truthy(v) == v \notin {PyNone, PyFalse, PyStr("")}

\* The ids the server lists for a search term, in result order.
ServerIds(term) ==
    CASE term = "a" -> <<1, 2, 3>>
      [] term = "b" -> <<3, 2, 3, 4>>
      [] term = "d" -> <<4>>
      [] term = LatestTerm -> <<4, 1, 2>>
      [] OTHER -> <<>>

Ids == {1, 2, 3, 4}

\* One row of a result page: the cached metadata shown on the page of
\* that term (the same id may be shown with different metadata).
ServerRow(term, id) ==
    [id |-> id, title |-> term, authors |-> term, publication |-> term]

ServerRows(term) ==
    [k \in 1..Len(ServerIds(term)) |-> ServerRow(term, ServerIds(term)[k])]

\* The rows of page number `page` of a list.
PageSlice(rows, page) ==
    SubSeq(rows, (page - 1) * PageSize + 1, Min(page * PageSize, Len(rows)))

\* What a page fetch that returns gives: the page, the page short of its
\* last row, or (after page 1) the page of a list that has grown by one row
\* since page 1 reported the count.
PageOutcomes == {"ok", "short", "long", "fail"}

\* The row the server has added to the list of a term.
NewRow(rows) ==
    IF rows = <<>> THEN <<>>
    ELSE <<[rows[1] EXCEPT !.id = 4]>>

ServedPage(rows, page, outcome) ==
    LET full == PageSlice(rows, page)
    IN IF outcome = "short" /\ Len(full) > 0
       THEN SubSeq(full, 1, Len(full) - 1)
       ELSE IF outcome = "long" /\ page > 1
       THEN PageSlice(rows \o NewRow(rows), page)
       ELSE full

\* The abstract a detail fetch finds (None for a page without one).
DetailAbstract(id) == IF id % 2 = 1 THEN PyStr("abstract") ELSE PyNone

\* ------------------------------------------------- PubMedSearch.buildQuery
\* str.replace(' ', '+') on the search strings of the model.
ReplaceSpaces(s) == IF s = "c c" THEN "c+c" ELSE s

DateFilter_lenient(not_older_than) ==
    IF ~Truthy(not_older_than) THEN ""
    ELSE IF not_older_than = PyStr("1_year") THEN "&filter=datesearch.y_1"
    ELSE IF not_older_than = PyStr("5_years") THEN "&filter=datesearch.y_5"
    ELSE IF not_older_than = PyStr("10_years") THEN "&filter=datesearch.y_10"
    ELSE ""

\* The date filter appended to the query, or "Exception" when the code raises.
DateFilter(not_older_than) ==
    IF ~Truthy(not_older_than) THEN ""
    ELSE IF not_older_than = PyStr("1_year") THEN "&filter=datesearch.y_1"
    ELSE IF not_older_than = PyStr("5_years") THEN "&filter=datesearch.y_5"
    ELSE IF not_older_than = PyStr("10_years") THEN "&filter=datesearch.y_10"
    ELSE "Exception"

NoQuery == [term |-> "", date |-> "", fha |-> FALSE, set |-> FALSE]

\* The query descriptor: the URL, kept as its parts.
BuildQuery(search_str, not_older_than, abstract_available) ==
    [term |-> search_str, date |-> DateFilter(not_older_than),
     fha |-> abstract_available, set |-> TRUE]

\* --------------------------------------------------------------- state
VARIABLES
    \* PubMedCrawler
    results,          \* self.results: id -> info
    archivepath,      \* self.archivepath, "unset" while the attribute is absent
    saveTextCalls,    \* calls of saveText per id
    saveMetaCalls,    \* calls of saveMeta per id
    saveFoundByCalls, \* calls of saveFoundBy per id
    loadCalls,        \* calls of article.load per id
    loadFails,        \* those that raised
    putCalls,         \* executions of self.results[id] = info per id
    producedBy,       \* per id, the distinct search strings whose traversal
                      \* yielded it and ran the loop body, by first discovery
    \* the searchFor call in progress and its PubMedSearch stream
    pc,               \* "idle" | "scan" | "body"
    status,           \* how the last searchFor ended, "running" meanwhile
    nSearches,        \* searchFor calls so far
    search_str,       \* searchFor's search_str after the replace
    not_older_than,   \* searchFor's argument
    limit,            \* searchFor's argument
    query,            \* self.query of the stream
    n_results,        \* self.n_results
    articles,         \* self.articles
    results_page,     \* self.results_page
    at,               \* the loop index of scan_results
    cur,              \* the article scan_results yielded last
    fetches,          \* page numbers requested by this stream, in order
    requests,         \* per page request sent: the page, the query descriptor
                      \* it was sent with, the rows it returned (-1: raised)
    allFull,          \* every page served to this stream was a full page
    yielded,          \* ids yielded by this traversal, in order
    processed,        \* ids whose loop body completed in this call
    opened,           \* the constructor of the stream returned
    nScans,           \* scan_results calls on this stream so far
    \* save / load
    ckptFile,         \* the file save writes
    lastCkpt,         \* the save or load just made and how it ended; NoCkpt
                      \* once another crawler operation has run
    \* a PubMedArticle and its articles_citing traversal
    art,              \* the article: id and the attributes set so far
    citing_page,      \* self.citing_page, 0 while absent
    citeLimit,        \* the limit of the last call
    citeFetched,      \* page numbers requested by the last call
    citeYielded,      \* ids yielded by the last call
    citeStatus,       \* how the last call ended
    \* two searchFor calls on one crawler, run by two threads
    lockScope,        \* what the crawler's lock encloses: "none" before the
                      \* threads start, then "writes" or "all"
    lock,             \* the thread that holds the lock, 0 when free
    tpc,              \* per thread, its position in the loop body
    tat               \* per thread, the index of the row its stream yielded

crawlerVars == <<results, archivepath, saveTextCalls, saveMetaCalls,
                 saveFoundByCalls, loadCalls, loadFails, putCalls, producedBy>>
streamVars == <<search_str, not_older_than, limit, query, n_results, articles,
                results_page, at, cur, fetches, requests, allFull, yielded,
                processed, opened, nScans>>
callVars == <<pc, status, nSearches>>
ckptVars == <<ckptFile, lastCkpt>>
citeVars == <<art, citing_page, citeLimit, citeFetched, citeYielded,
              citeStatus>>
concVars == <<lockScope, lock, tpc, tat>>
vars == <<crawlerVars, streamVars, callVars, ckptVars, citeVars, concVars>>

NoArticle == [id |-> 0, title |-> "", authors |-> "", publication |-> ""]
NoFile == [exists |-> FALSE, child_vars |-> {}, results |-> <<>>,
           archivepath |-> "unset"]
PyUnset == <<"unset", "">>
NoArt == [id |-> 0, title |-> "unset", authors |-> "unset",
          publication |-> "unset", abstract |-> PyUnset]
NoCkpt == [op |-> "none", outcome |-> "none"]
Zero == [i \in Ids |-> 0]

\* The two threads, each running one searchFor call.
Threads == {1, 2}

\* PubMedCrawler.__init__, with or without a path.
Init ==
    /\ results = <<>>
    /\ archivepath \in {"unset", "archive"}
    /\ saveTextCalls = Zero /\ saveMetaCalls = Zero /\ saveFoundByCalls = Zero
    /\ loadCalls = Zero /\ loadFails = Zero /\ putCalls = Zero
    /\ producedBy = [i \in Ids |-> <<>>]
    /\ pc = "idle" /\ status = "none" /\ nSearches = 0
    /\ search_str = "" /\ not_older_than = PyNone /\ limit = 0
    /\ query = NoQuery /\ n_results = 0 /\ articles = <<>>
    /\ results_page = 0 /\ at = 0 /\ cur = NoArticle
    /\ fetches = <<>> /\ requests = <<>>
    /\ allFull = TRUE /\ yielded = <<>> /\ processed = {}
    /\ opened = FALSE /\ nScans = 0
    /\ ckptFile = NoFile /\ lastCkpt = NoCkpt
    /\ art = NoArt /\ citing_page = 0 /\ citeLimit = 0
    /\ citeFetched = <<>> /\ citeYielded = <<>> /\ citeStatus = "none"
    /\ lockScope = "none" /\ lock = 0
    /\ tpc = [t \in Threads |-> "none"] /\ tat = [t \in Threads |-> 0]

\* hasattr(self, 'archivepath')
HasArchive_always(ap) == TRUE

HasArchive(ap) == ap # "unset"

\* PubMedCrawler.setArchivePath
SetArchivePath ==
    /\ pc = "idle"
    /\ archivepath' = "archive"
    /\ lastCkpt' = NoCkpt
    /\ UNCHANGED <<results, saveTextCalls, saveMetaCalls, saveFoundByCalls,
                   loadCalls, loadFails, putCalls, producedBy, streamVars,
                   callVars, ckptFile, citeVars, concVars>>

\* ------------------------------------------------ PubMedSearch.scan_results
\* The loop of scan_results ends: range(n_results) is used up or at == limit.
ScanStop_after(a, n, lim) == a >= n \/ a > lim

ScanStop(a, n, lim) == a >= n \/ a = lim

\* at == len(self.articles)
NeedsFetch_eager(a, arts) == a + 1 >= Len(arts)

NeedsFetch(a, arts) == a = Len(arts)

\* ------------------------------------------------ PubMedCrawler.addArticle
\* article.id in self.results.keys()
Known_never(res, id) == FALSE

Known(res, id) == id \in DOMAIN res

\* The info dict of addArticle, with the abstract added after saveMeta.
Info(article, abstract) ==
    [id |-> article.id, title |-> article.title, authors |-> article.authors,
     citation |-> article.publication, found_by |-> <<>>,
     abstract |-> abstract]

\* self.results[article.id] = info
PutResult(res, article, abstract) ==
    [x \in DOMAIN res \cup {article.id} |->
        IF x = article.id THEN Info(article, abstract) ELSE res[x]]

\* self.results[article.id]['found_by'].append(search_str)
AddFoundBy_skip(res, id, s) == res

AddFoundBy(res, id, s) == [res EXCEPT ![id].found_by = Append(@, s)]

Bump(f, id) == [f EXCEPT ![id] = @ + 1]

Range(seq) == {seq[k] : k \in 1..Len(seq)}

\* The record of which search strings produced an id (not program state).
Discover(hist, id, s) ==
    IF s \in Range(hist[id]) THEN hist ELSE [hist EXCEPT ![id] = Append(@, s)]

\* ------------------------------------------------ PubMedSearch.__init__
\* PubMedSearch(search_str, not_older_than, abstract_available): buildQuery,
\* then startFromQuery with the fetch of page 1.  TRUE in `built` when
\* buildQuery returned, in `started` when startFromQuery returned.
Construct(str, nof, abstract_available, outcome) ==
    LET q == BuildQuery(str, nof, abstract_available)
        rows == ServerRows(str)
        built == q.date # "Exception"
        started == built /\ outcome # "fail"
    IN
    /\ not_older_than' = nof
    /\ opened' = started
    /\ query' = IF built THEN q ELSE NoQuery
    /\ results_page' = IF built THEN 1 ELSE 0
    /\ fetches' = IF built THEN <<1>> ELSE <<>>
    /\ n_results' = IF started THEN Len(rows) ELSE 0
    /\ articles' = IF started THEN ServedPage(rows, 1, outcome) ELSE <<>>
    /\ requests' = IF built
                   THEN <<[page |-> 1, query |-> q,
                           got |-> IF started THEN Len(articles') ELSE -1]>>
                   ELSE <<>>
    /\ allFull' = IF started THEN articles' = PageSlice(rows, 1)
                  ELSE built => outcome # "fail"
    /\ at' = 0 /\ cur' = NoArticle /\ yielded' = <<>> /\ processed' = {}

\* How a call that constructs a stream ends when the construction raises.
ConstructError(nof, outcome) ==
    IF DateFilter(nof) = "Exception" THEN "Exception"
    ELSE IF outcome = "fail" THEN "TransportError"
    ELSE "none"

\* search(search_str, **kwargs) of the package: a stream for a consumer.
Search ==
    \E s \in StreamSearchStrings, nof \in NotOlderThanValues,
       abstract_available \in BOOLEAN, outcome \in PageOutcomes :
      /\ pc = "idle" /\ ~opened
      /\ nSearches < MaxSearches
      /\ nSearches' = nSearches + 1
      /\ search_str' = s
      /\ Construct(s, nof, abstract_available, outcome)
      /\ pc' = "idle"
      /\ status' = IF ConstructError(nof, outcome) = "none" THEN "open"
                   ELSE ConstructError(nof, outcome)
      /\ UNCHANGED <<crawlerVars, ckptVars, citeVars, concVars, limit, nScans>>

\* The query get_latest builds, kept as its parts.
LatestQuery ==
    [term |-> LatestTerm, date |-> "&filter=dates.today-tomorrow",
     fha |-> FALSE, set |-> TRUE]

\* get_latest(): PubMedSearch() assigns no attribute, startFromQuery(query)
\* fetches page 1 with the query it was passed, sets n_results and articles
\* and ends with `return self.query`, an attribute nothing has assigned:
\* the call raises and the stream object is dropped.
GetLatest ==
    \E outcome \in PageOutcomes :
      LET rows == ServerRows(LatestTerm)
          fetched == outcome # "fail"
      IN
      /\ pc = "idle" /\ ~opened
      /\ nSearches < MaxSearches
      /\ nSearches' = nSearches + 1
      /\ search_str' = "" /\ not_older_than' = PyNone
      /\ query' = NoQuery
      /\ results_page' = 1
      /\ fetches' = <<1>>
      /\ n_results' = IF fetched THEN Len(rows) ELSE 0
      /\ articles' = IF fetched THEN ServedPage(rows, 1, outcome) ELSE <<>>
      /\ requests' = <<[page |-> 1, query |-> LatestQuery,
                        got |-> IF fetched THEN Len(articles') ELSE -1]>>
      /\ allFull' = (fetched /\ articles' = PageSlice(rows, 1))
      /\ at' = 0 /\ cur' = NoArticle /\ yielded' = <<>> /\ processed' = {}
      /\ opened' = FALSE
      /\ pc' = "idle"
      /\ status' = IF fetched THEN "AttributeError" ELSE "TransportError"
      /\ UNCHANGED <<crawlerVars, ckptVars, citeVars, concVars, limit, nScans>>

\* The consumer calls scan_results(limit) on the stream and starts to
\* iterate: the generator starts at index 0.
ScanResults ==
    \E lim \in Limits :
      /\ pc = "idle" /\ opened
      /\ nScans < MaxScans
      /\ nScans' = nScans + 1
      /\ limit' = lim
      /\ at' = 0 /\ cur' = NoArticle /\ yielded' = <<>>
      /\ pc' = "scan" /\ status' = "running"
      /\ UNCHANGED <<crawlerVars, ckptVars, citeVars, concVars, nSearches, search_str,
                     not_older_than, query, n_results, articles, results_page,
                     fetches, requests, allFull, processed, opened>>

\* The consumer's loop takes the yielded item and asks for the next one.
Pull ==
    /\ pc = "body"
    /\ pc' = "scan" /\ at' = at + 1
    /\ UNCHANGED <<crawlerVars, ckptVars, citeVars, concVars, status, nSearches, nScans,
                   search_str, not_older_than, limit, query, n_results,
                   articles, results_page, cur, fetches, requests, allFull,
                   yielded, processed, opened>>

\* ------------------------------------------------ PubMedCrawler.searchFor
\* The arguments given to searchFor: not_older_than is the bool its
\* signature declares (True by default), abstract_available its default.
\* Every other filter value is an input of Search.
CrawlerNotOlderThan == {PyTrue, PyFalse}
CrawlerAbstractAvailable == {TRUE}

\* searchFor up to the first suspension of the generator: the replace,
\* PubMedSearch.__init__ and the start of scan_results(limit).
SearchFor ==
    \E s \in SearchStrings, lim \in Limits, nof \in CrawlerNotOlderThan,
       abstract_available \in CrawlerAbstractAvailable,
       outcome \in PageOutcomes :
      LET str == ReplaceSpaces(s) IN
      /\ pc = "idle"
      /\ nSearches < MaxSearches
      /\ nSearches' = nSearches + 1
      /\ search_str' = str /\ limit' = lim
      /\ Construct(str, nof, abstract_available, outcome)
      /\ nScans' = IF ConstructError(nof, outcome) = "none" THEN 1 ELSE 0
      /\ pc' = IF ConstructError(nof, outcome) = "none" THEN "scan" ELSE "idle"
      /\ status' = IF ConstructError(nof, outcome) = "none" THEN "running"
                   ELSE ConstructError(nof, outcome)
      /\ lastCkpt' = NoCkpt
      /\ UNCHANGED <<crawlerVars, ckptFile, citeVars, concVars>>

\* One resumption of scan_results: up to the next yield, the end of the
\* loop or an exception (grepMoreResults included).
ScanStep ==
    /\ pc = "scan"
    /\ UNCHANGED <<crawlerVars, ckptVars, citeVars, concVars, nSearches, search_str,
                   not_older_than, limit, query, n_results, at, processed,
                   opened, nScans>>
    /\ IF ScanStop(at, n_results, limit)
       THEN /\ pc' = "idle" /\ status' = "done"
            /\ UNCHANGED <<articles, results_page, cur, fetches, requests,
                           allFull, yielded>>
       ELSE IF NeedsFetch(at, articles)
       THEN \* grepMoreResults
            /\ results_page' = results_page + 1
            /\ IF ~query.set
               THEN \* self.query was never assigned
                    /\ pc' = "idle" /\ status' = "AttributeError"
                    /\ UNCHANGED <<articles, cur, fetches, requests, allFull,
                                   yielded>>
               ELSE \E outcome \in PageOutcomes :
                    LET page == results_page + 1
                        rows == ServerRows(query.term)
                        got == ServedPage(rows, page, outcome)
                    IN
                    /\ fetches' = Append(fetches, page)
                    /\ requests' = Append(requests,
                          [page |-> page, query |-> query,
                           got |-> IF outcome = "fail" THEN -1 ELSE Len(got)])
                    /\ IF outcome = "fail"
                       THEN /\ pc' = "idle" /\ status' = "TransportError"
                            /\ allFull' = FALSE
                            /\ UNCHANGED <<articles, cur, yielded>>
                       ELSE /\ articles' = articles \o got
                            /\ allFull' = (allFull /\ got = PageSlice(rows, page))
                            /\ IF at + 1 > Len(articles')
                               THEN \* self.articles[at] is out of range
                                    /\ pc' = "idle" /\ status' = "IndexError"
                                    /\ UNCHANGED <<cur, yielded>>
                               ELSE /\ pc' = "body"
                                    /\ cur' = articles'[at + 1]
                                    /\ yielded' = Append(yielded, cur'.id)
                                    /\ UNCHANGED status
       ELSE /\ UNCHANGED <<articles, results_page, fetches, requests, allFull>>
            /\ IF at + 1 > Len(articles)
               THEN /\ pc' = "idle" /\ status' = "IndexError"
                    /\ UNCHANGED <<cur, yielded>>
               ELSE /\ pc' = "body"
                    /\ cur' = articles[at + 1]
                    /\ yielded' = Append(yielded, cur'.id)
                    /\ UNCHANGED status

\* The body of the loop of searchFor: addArticle, then addFoundBy; the
\* for statement then asks the generator for the next item.
Body ==
    /\ pc = "body"
    /\ UNCHANGED <<archivepath, ckptVars, citeVars, concVars, nSearches, search_str,
                   not_older_than, limit, query, n_results, articles,
                   results_page, cur, fetches, requests, allFull, yielded,
                   opened, nScans>>
    /\ IF Known(results, cur.id)
       THEN \* addArticle returns False
            /\ results' = AddFoundBy(results, cur.id, search_str)
            /\ saveFoundByCalls' = IF HasArchive(archivepath)
                                   THEN Bump(saveFoundByCalls, cur.id)
                                   ELSE saveFoundByCalls
            /\ pc' = "scan" /\ at' = at + 1
            /\ processed' = processed \cup {cur.id}
            /\ producedBy' = Discover(producedBy, cur.id, search_str)
            /\ UNCHANGED <<saveTextCalls, saveMetaCalls, loadCalls, loadFails,
                           putCalls, status>>
       ELSE \E loaded \in BOOLEAN :
            /\ loadCalls' = Bump(loadCalls, cur.id)
            /\ IF ~loaded
               THEN \* article.load raises and nothing catches it
                    /\ loadFails' = Bump(loadFails, cur.id)
                    /\ pc' = "idle" /\ status' = "DetailFetchError"
                    /\ UNCHANGED <<results, saveTextCalls, saveMetaCalls,
                                   saveFoundByCalls, putCalls, at, processed,
                                   producedBy>>
               ELSE LET abstract == DetailAbstract(cur.id) IN
                    /\ saveTextCalls' =
                         IF HasArchive(archivepath) /\ abstract # PyNone
                         THEN Bump(saveTextCalls, cur.id) ELSE saveTextCalls
                    /\ saveMetaCalls' =
                         IF HasArchive(archivepath)
                         THEN Bump(saveMetaCalls, cur.id) ELSE saveMetaCalls
                    /\ results' = AddFoundBy(PutResult(results, cur, abstract),
                                             cur.id, search_str)
                    /\ putCalls' = Bump(putCalls, cur.id)
                    /\ saveFoundByCalls' = IF HasArchive(archivepath)
                                           THEN Bump(saveFoundByCalls, cur.id)
                                           ELSE saveFoundByCalls
                    /\ pc' = "scan" /\ at' = at + 1
                    /\ processed' = processed \cup {cur.id}
                    /\ producedBy' = Discover(producedBy, cur.id, search_str)
                    /\ UNCHANGED <<loadFails, status>>

\* ------------------------------------------- PubMedCrawler.save / load
\* The names dir(self) lists: those with "__", the methods, and the
\* instance attributes present.
DunderNames == {"__class__", "__dict__", "__doc__", "__init__", "__module__"}
MethodNames == {"addArticle", "addFoundBy", "load", "save", "saveFoundBy",
                "saveMeta", "saveText", "searchFor", "setArchivePath"}
DirSelf(ap) ==
    DunderNames \cup MethodNames \cup {"results"}
        \cup (IF ap # "unset" THEN {"archivepath"} ELSE {})

\* "__" in var
HasDunder(var) == var \in DunderNames

\* The loop of save evaluates isinstance(ref, callable()) for every name
\* without "__"; callable() without an argument raises TypeError.
SaveRaises(ap) == \E var \in DirSelf(ap) : ~HasDunder(var)

\* The state save is to capture.
Snapshot(res, ap) ==
    [exists |-> TRUE,
     child_vars |-> {"results"} \cup (IF ap # "unset" THEN {"archivepath"} ELSE {}),
     results |-> res, archivepath |-> ap]

\* save(file_name): the file is opened and written only after the loop.
Save ==
    /\ pc = "idle"
    /\ IF SaveRaises(archivepath)
       THEN /\ lastCkpt' = [op |-> "save", outcome |-> "TypeError"]
            /\ UNCHANGED ckptFile
       ELSE \* every name was skipped: child_vars is empty
            /\ lastCkpt' = [op |-> "save", outcome |-> "ok"]
            /\ ckptFile' = [exists |-> TRUE, child_vars |-> {},
                            results |-> <<>>, archivepath |-> "unset"]
    /\ UNCHANGED <<crawlerVars, streamVars, callVars, citeVars, concVars>>

\* load(file_name): a new crawler with every stored attribute set.
Load ==
    /\ pc = "idle"
    /\ IF ~ckptFile.exists
       THEN \* open(file_name, 'rb') raises
            /\ lastCkpt' = [op |-> "load", outcome |-> "FileNotFoundError"]
            /\ UNCHANGED <<results, archivepath>>
       ELSE /\ lastCkpt' = [op |-> "load", outcome |-> "ok"]
            /\ results' = IF "results" \in ckptFile.child_vars
                          THEN ckptFile.results ELSE <<>>
            /\ archivepath' = IF "archivepath" \in ckptFile.child_vars
                              THEN ckptFile.archivepath ELSE "unset"
    /\ UNCHANGED <<saveTextCalls, saveMetaCalls, saveFoundByCalls, loadCalls,
                   loadFails, putCalls, producedBy, streamVars, callVars,
                   ckptFile, citeVars, concVars>>

Next ==
    \/ SetArchivePath
    \/ Save
    \/ Load
    \/ SearchFor
    \/ ScanStep
    \/ Body

Spec == Init /\ [][Next]_vars

\* A consumer of one stream, without the crawler.
NextStream ==
    \/ Search
    \/ GetLatest
    \/ ScanResults
    \/ ScanStep
    \/ Pull

SpecStream == Init /\ [][NextStream]_vars

\* ---------------------------------------------------------- PubMedArticle
\* The ids the cited-by endpoint lists for an article, in result order.
CitingIds(id) ==
    CASE id = 1 -> ServerIds("a")
      [] id = 2 -> ServerIds("b")
      [] OTHER -> <<>>

\* The attributes some statement of PubMedArticle assigns.  No statement
\* assigns self.citing, self.citations or self.n_citations.
ArticleAttrs == {"id", "title", "authors", "publication", "doc", "abstract",
                 "fulltext_link", "citing_page"}

\* PubMedArticle(id) or PubMedArticle(id, title, authors, publication):
\* setMetaData runs only when a title is given.
NewArticle ==
    \E id \in Ids, title \in {"unset", "a", "b"} :
      /\ art' = IF title = "unset"
                THEN [NoArt EXCEPT !.id = id]
                ELSE [id |-> id, title |-> title, authors |-> title,
                      publication |-> title, abstract |-> PyUnset]
      /\ citing_page' = 0 /\ citeLimit' = 0
      /\ citeFetched' = <<>> /\ citeYielded' = <<>> /\ citeStatus' = "none"
      /\ UNCHANGED <<crawlerVars, streamVars, callVars, ckptVars, concVars>>

\* load(): the abstract, and the metadata of the detail page when the
\* article has no title yet.
ArticleLoad ==
    \E loaded \in BOOLEAN :
      /\ art.id # 0
      /\ art' = IF ~loaded THEN art
                ELSE IF art.title = "unset"
                THEN [id |-> art.id, title |-> "detail", authors |-> "detail",
                      publication |-> "detail",
                      abstract |-> DetailAbstract(art.id)]
                ELSE [art EXCEPT !.abstract = DetailAbstract(art.id)]
      /\ UNCHANGED <<crawlerVars, streamVars, callVars, ckptVars, concVars,
                     citing_page,
                     citeLimit, citeFetched, citeYielded, citeStatus>>

\* articles_citing(limit) up to its first suspension: citing_page = 1, then
\* grepMoreResults, which adds 1 to citing_page before it builds the link
\* and then extends self.citing.
ArticlesCiting ==
    \E lim \in Limits, outcome \in PageOutcomes :
      /\ art.id # 0
      /\ citeLimit' = lim
      /\ citing_page' = 1 + 1
      /\ citeFetched' = <<citing_page'>>
      /\ citeYielded' = <<>>
      /\ citeStatus' = IF outcome = "fail" THEN "TransportError"
                       ELSE IF "citing" \notin ArticleAttrs
                       THEN "AttributeError"
                       ELSE IF "n_citations" \notin ArticleAttrs
                       THEN "AttributeError"
                       ELSE "running"
      /\ UNCHANGED <<crawlerVars, streamVars, callVars, ckptVars, concVars, art>>

NextCite ==
    \/ NewArticle
    \/ ArticleLoad
    \/ ArticlesCiting

SpecCite == Init /\ [][NextCite]_vars

\* ------------------------------------ two searchFor calls on one crawler
\* The code takes no lock; the lock is the external synchronization the
\* caller adds.  Each thread runs the loop body of searchFor (addArticle,
\* then addFoundBy) for the rows of its own stream, taken as served in full;
\* a step of a thread is one of the statements of the loop body.  With
\* lockScope "writes" the lock encloses each group of writes to results and
\* the archive (a group is then one step); with "all" it is taken before the
\* membership test and released after addFoundBy.
ThreadQuery(t) == IF t = 1 THEN "a" ELSE "b"

\* The row the stream of thread t has yielded.
ThreadRow(t) == ServerRows(ThreadQuery(t))[tat[t] + 1]

\* Both searchFor calls have opened their streams and got their first row.
StartThreads ==
    \E scope \in {"writes", "all"} :
      /\ pc = "idle" /\ lockScope = "none" /\ nSearches = 0
      /\ lockScope' = scope /\ lock' = 0
      /\ tpc' = [t \in Threads |-> "test"]
      /\ tat' = [t \in Threads |-> 0]
      /\ nSearches' = 2
      /\ UNCHANGED <<crawlerVars, streamVars, pc, status, ckptVars, citeVars>>

\* addArticle: if article.id in self.results.keys(): return False
MembershipTest ==
    \E t \in Threads :
      /\ tpc[t] = "test"
      /\ IF lockScope = "all" THEN lock = 0 /\ lock' = t ELSE UNCHANGED lock
      /\ tpc' = [tpc EXCEPT ![t] = IF Known(results, ThreadRow(t).id)
                                   THEN "found" ELSE "load"]
      /\ UNCHANGED <<crawlerVars, streamVars, callVars, ckptVars, citeVars,
                     lockScope, tat>>

\* addArticle: article.load(); an exception ends the thread's searchFor.
DetailFetch ==
    \E t \in Threads, loaded \in BOOLEAN :
      /\ tpc[t] = "load"
      /\ loadCalls' = Bump(loadCalls, ThreadRow(t).id)
      /\ loadFails' = IF loaded THEN loadFails
                      ELSE Bump(loadFails, ThreadRow(t).id)
      /\ tpc' = [tpc EXCEPT ![t] = IF loaded THEN "store" ELSE "failed"]
      /\ lock' = IF ~loaded /\ lock = t THEN 0 ELSE lock
      /\ UNCHANGED <<results, archivepath, saveTextCalls, saveMetaCalls,
                     saveFoundByCalls, putCalls, producedBy, streamVars,
                     callVars, ckptVars, citeVars, lockScope, tat>>

\* addArticle after the load: saveText, saveMeta, self.results[id] = info.
StoreArticle ==
    \E t \in Threads :
      LET article == ThreadRow(t)
          abstract == DetailAbstract(article.id)
      IN
      /\ tpc[t] = "store"
      /\ lock = IF lockScope = "all" THEN t ELSE 0
      /\ saveTextCalls' = IF HasArchive(archivepath) /\ abstract # PyNone
                          THEN Bump(saveTextCalls, article.id)
                          ELSE saveTextCalls
      /\ saveMetaCalls' = IF HasArchive(archivepath)
                          THEN Bump(saveMetaCalls, article.id)
                          ELSE saveMetaCalls
      /\ results' = PutResult(results, article, abstract)
      /\ putCalls' = Bump(putCalls, article.id)
      /\ tpc' = [tpc EXCEPT ![t] = "found"]
      /\ UNCHANGED <<archivepath, saveFoundByCalls, loadCalls, loadFails,
                     producedBy, streamVars, callVars, ckptVars, citeVars,
                     lockScope, lock, tat>>

\* addFoundBy, then the for statement takes the next row of the stream.
StoreFoundBy ==
    \E t \in Threads :
      LET id == ThreadRow(t).id IN
      /\ tpc[t] = "found"
      /\ lock = IF lockScope = "all" THEN t ELSE 0
      /\ results' = AddFoundBy(results, id, ThreadQuery(t))
      /\ saveFoundByCalls' = IF HasArchive(archivepath)
                             THEN Bump(saveFoundByCalls, id)
                             ELSE saveFoundByCalls
      /\ producedBy' = Discover(producedBy, id, ThreadQuery(t))
      /\ lock' = 0
      /\ tat' = [tat EXCEPT ![t] = @ + 1]
      /\ tpc' = [tpc EXCEPT ![t] =
                    IF tat[t] + 1 = Len(ServerRows(ThreadQuery(t)))
                    THEN "done" ELSE "test"]
      /\ UNCHANGED <<archivepath, saveTextCalls, saveMetaCalls, loadCalls,
                     loadFails, putCalls, streamVars, callVars, ckptVars,
                     citeVars, lockScope>>

NextThreads ==
    \/ StartThreads
    \/ MembershipTest
    \/ DetailFetch
    \/ StoreArticle
    \/ StoreFoundBy

SpecThreads == Init /\ [][NextThreads]_vars

\* ================================================================ claims
LoadsReturned(id) == loadCalls[id] - loadFails[id]

\* The number of items a traversal with this limit is to visit.
TraversalLen(n, lim) == IF lim < 0 THEN n ELSE Min(n, lim)

\* C1 as stated: every id triggers at most one detail fetch (article.load)
\* and at most one saveMeta call, over any sequence of searchFor calls.
C1_OneDetailFetchPerId ==
    \A id \in Ids : loadCalls[id] <= 1 /\ saveMetaCalls[id] <= 1

\* C1 amended: for every id at most one detail fetch returns and at most one
\* saveMeta call is made; an id is in results exactly when a detail fetch
\* for it returned; once an id is in results no searchFor fetches its
\* detail or calls saveMeta for it again, and the loop body run for such a
\* rediscovered id still appends the current search string to its found_by.
\* (A detail fetch that raised is repeated when the id is found again.)
C1_NonDuplication ==
    /\ [](\A id \in Ids :
            /\ LoadsReturned(id) <= 1
            /\ saveMetaCalls[id] <= 1
            /\ (id \in DOMAIN results <=> LoadsReturned(id) = 1))
    /\ [][\A id \in DOMAIN results :
            /\ loadCalls'[id] = loadCalls[id]
            /\ saveMetaCalls'[id] = saveMetaCalls[id]
            /\ (pc = "body" /\ cur.id = id)
                 => /\ id \in DOMAIN results'
                    /\ results'[id].found_by =
                         Append(results[id].found_by, search_str)]_vars

\* C1 witness: an id found again by a second search, fetched and saved once.
C1_Witness ==
    \E id \in DOMAIN results :
        /\ Len(results[id].found_by) >= 2
        /\ nSearches = 2
        /\ loadCalls[id] = 1
        /\ archivepath # "unset" /\ saveMetaCalls[id] = 1

\* C2: for every id in results, found_by lists exactly the distinct search
\* strings that produced the id, in order of first discovery, without
\* duplicates.
C2_ProvenanceMerge ==
    \A id \in DOMAIN results : results[id].found_by = producedBy[id]

\* C3: when the detail fetch of one record fails during searchFor, every
\* other record of the traversal (before and after it, up to the limit) is
\* in results, or at least had its own detail fetch attempted, and the
\* failing record is absent from results.
C3_PartialFailureIsolation ==
    (pc = "idle" /\ status = "DetailFetchError" /\ allFull) =>
        /\ cur.id \notin DOMAIN results
        /\ \A k \in 1..TraversalLen(n_results, limit) :
              LET id == ServerIds(search_str)[k] IN
              id # cur.id => (id \in DOMAIN results \/ loadCalls[id] > 0)

\* C4: save captures the crawler's results and archive path and load
\* restores them: after save the file holds the state, and after a load of
\* a file that save wrote the crawler has the file's results and path.
C4_CheckpointRoundTrip ==
    /\ lastCkpt.op = "save" =>
          /\ lastCkpt.outcome = "ok"
          /\ ckptFile = Snapshot(results, archivepath)
    /\ (lastCkpt.op = "load" /\ ckptFile.exists) =>
          /\ lastCkpt.outcome = "ok"
          /\ results = ckptFile.results
          /\ archivepath = ckptFile.archivepath

CeilDiv(a, b) == (a + b - 1) \div b

\* The traversal pulled all n_results items and every page fetch of the
\* stream returned its full page.
PulledAll == status = "done" /\ Len(yielded) = n_results /\ allFull

\* C5 as stated: pulling all T items of a stream served full pages takes
\* exactly ceil(T / PageSize) page fetches, the fetch of page 1 included.
C5_CeilFetches ==
    PulledAll => Len(fetches) = CeilDiv(n_results, PageSize)

\* C5 amended: pulling all T items of a stream served full pages takes
\* exactly ceil(T / PageSize) page fetches for T >= 1, and exactly one (the
\* fetch of page 1 at construction) for T = 0; the pages fetched are
\* 1, 2, ... in order.
C5_PaginationCompleteness ==
    PulledAll =>
        /\ Len(fetches) = Max(1, CeilDiv(n_results, PageSize))
        /\ \A k \in 1..Len(fetches) : fetches[k] = k

\* C5 witness: all items of a two-page stream pulled with two fetches.
C5_Witness ==
    PulledAll /\ n_results > PageSize /\ Len(fetches) >= 2 /\ nScans = 1

\* C6: a page fetch that fails during searchFor ends the call and leaves
\* results and the archive as they were before that fetch; every record
\* whose loop body ran earlier in the call is in results with the current
\* search string in its found_by.
C6_StreamErrorPropagation ==
    /\ [][(status' = "TransportError" /\
            (fetches' # fetches \/ nSearches' # nSearches))
           => /\ pc' = "idle"
              /\ results' = results
              /\ saveMetaCalls' = saveMetaCalls
              /\ saveFoundByCalls' = saveFoundByCalls]_vars
    /\ [](\A id \in processed :
            /\ id \in DOMAIN results
            /\ search_str \in Range(results[id].found_by))

\* C6 witness: a later page fetch failed after records were processed.
C6_Witness ==
    /\ status = "TransportError" /\ pc = "idle"
    /\ Len(fetches) >= 2 /\ processed # {}

Recognized == {PyStr("1_year"), PyStr("5_years"), PyStr("10_years")}

\* C8 as stated: building the query fails exactly for the values outside
\* {1_year, 5_years, 10_years, None}, and then before any page fetch.
C8_RejectsUnrecognized ==
    nSearches > 0 =>
        /\ status = "Exception" <=>
              not_older_than \notin Recognized \cup {PyNone}
        /\ status = "Exception" => fetches = <<>>

\* C8 amended: building the query fails exactly for the values that are
\* truthy and not one of 1_year, 5_years, 10_years, and then before any page
\* fetch; it succeeds for the three recognized values and for every falsy
\* value (None, False, the empty string), which all mean no date filter.
C8_ConfigurationError ==
    nSearches > 0 =>
        /\ status = "Exception" <=>
              (Truthy(not_older_than) /\ not_older_than \notin Recognized)
        /\ status = "Exception" =>
              fetches = <<>> /\ ~opened /\ ~query.set
        /\ not_older_than \in Recognized => query.set /\ fetches # <<>>

\* C8 witness: an unrecognized value was refused with no fetch made.
C8_Witness ==
    /\ status = "Exception" /\ not_older_than = PyStr("2_years")
    /\ fetches = <<>> /\ nSearches > 0

\* C10: without an archive path no saveText, saveMeta or saveFoundBy call is
\* made, and every record whose detail fetch returned is in results with
\* its id, the metadata of the row that first produced it, its abstract
\* and a found_by that starts with the search that first produced it.
C10_NoArchive ==
    archivepath = "unset" =>
        /\ \A id \in Ids :
              /\ saveTextCalls[id] = 0
              /\ saveMetaCalls[id] = 0
              /\ saveFoundByCalls[id] = 0
        /\ \A id \in Ids : LoadsReturned(id) > 0 \/ id \in processed =>
              /\ id \in DOMAIN results
              /\ results[id].id = id
              /\ results[id].abstract = DetailAbstract(id)
              /\ results[id].found_by # <<>>
              /\ results[id].found_by[1] = producedBy[id][1]
              /\ LET first == ServerRow(producedBy[id][1], id) IN
                 /\ results[id].title = first.title
                 /\ results[id].authors = first.authors
                 /\ results[id].citation = first.publication

\* C10 witness: records with and without an abstract kept in memory only.
C10_Witness ==
    /\ archivepath = "unset"
    /\ \E id1, id2 \in DOMAIN results :
          results[id1].abstract # PyNone /\ results[id2].abstract = PyNone

\* C9: articles_citing(limit) is the paginated machine of scan_results: its
\* first fetch is page 1 of the cited-by list, and a traversal that no
\* transport failure ends yields the first items of that list in page
\* order, as many as scan_results(limit) yields of a list of that length.
C9_CitationLikeSearch ==
    citeStatus # "none" =>
        /\ citeFetched[1] = 1
        /\ citeStatus # "TransportError" =>
              /\ citeStatus \in {"running", "done"}
              /\ citeStatus = "done" =>
                    citeYielded =
                      SubSeq(CitingIds(art.id), 1,
                             TraversalLen(Len(CitingIds(art.id)), citeLimit))

\* The number of items that min(totalCount, limit) allows a traversal.
YieldBound(n, lim) == Max(0, Min(n, lim))

\* The ids of the first k items of a list of rows.
FirstIds(rows, k) == [j \in 1..k |-> rows[j].id]

\* C11: a scan_results(limit) traversal that runs to its end has yielded
\* exactly the items at indices 0 .. min(n_results, limit) - 1 of the
\* stream, each once and in increasing order, and nothing when
\* min(n_results, limit) <= 0, for every integer limit.
C11_LimitedTraversal ==
    status = "done" =>
        /\ Len(articles) >= Len(yielded)
        /\ yielded = FirstIds(articles, YieldBound(n_results, limit))

\* A resumption of scan_results sent a page request that returned no row.
EmptyPageFetched ==
    /\ pc = "scan"
    /\ Len(requests') = Len(requests) + 1
    /\ requests'[Len(requests')].got = 0

\* C12: when a page fetch made by scan_results returns zero items (the
\* index is then still below the end of the traversal), the traversal ends
\* at that point with an error raised to the consumer (IndexError): it does
\* not end as a finished traversal and it yields nothing; and whenever an
\* item is yielded it is the fetched item at the consumer's index.
C12_EmptyPageIsAnError ==
    [][/\ EmptyPageFetched =>
             /\ pc' = "idle" /\ status' = "IndexError"
             /\ yielded' = yielded /\ cur' = cur
             /\ at = Len(articles') /\ at < n_results /\ at # limit
       /\ (pc = "scan" /\ yielded' # yielded) =>
             /\ at + 1 <= Len(articles')
             /\ yielded' = Append(yielded, articles'[at + 1].id)]_vars

\* C12 witness: a later page came back empty below min(n_results, limit)
\* and the traversal ended with the error.
C12_Witness ==
    /\ status = "IndexError" /\ pc = "idle"
    /\ Len(requests) >= 2 /\ requests[Len(requests)].got = 0
    /\ at < YieldBound(n_results, limit)
    /\ at = Len(articles)

\* C13: in every state of an opened stream, after any number of pulls and
\* whatever the page fetches returned, articles holds at most n_results
\* items and n_results is the count page 1 reported.
C13_ResultSetBound ==
    opened =>
        /\ Len(articles) <= n_results
        /\ n_results = Len(ServerRows(search_str))

\* The traversal has ended: the generator returned or raised.
Terminal == pc = "idle" /\ status \in {"done", "TransportError", "IndexError"}

\* C14: a scan_results(limit) traversal makes at most min(n_results, limit)
\* yields; it is over (Exhausted) once the requested count or n_results is
\* met, and over (Errored) when a page fetch fails; once it is over the
\* consumer is no longer inside it, so it yields and fetches nothing more.
C14_TraversalStateMachine ==
    nScans > 0 =>
        /\ Len(yielded) <= YieldBound(n_results, limit)
        /\ status = "done" =>
              Terminal /\ (Len(yielded) = limit \/ Len(yielded) = n_results)
        /\ status = "TransportError" => Terminal

IsPrefix(p, q) == Len(p) <= Len(q) /\ SubSeq(q, 1, Len(p)) = p

\* C15: once an id is in results, no step of a later searchFor, even one
\* whose stream yields a row with the same id and other cached metadata,
\* removes the entry or changes its id, title, authors, citation or
\* abstract; found_by only grows at its end.
C15_MetadataStability ==
    [][\A id \in DOMAIN results :
          /\ id \in DOMAIN results'
          /\ results'[id].id = results[id].id
          /\ results'[id].title = results[id].title
          /\ results'[id].authors = results[id].authors
          /\ results'[id].citation = results[id].citation
          /\ results'[id].abstract = results[id].abstract
          /\ IsPrefix(results[id].found_by, results'[id].found_by)]_vars

\* C15 witness: the loop body has run for a row of search "b" whose id was
\* first stored from a row of search "a": the entry keeps the first row's
\* metadata and has gained "b" in found_by.
C15_Witness ==
    \E id \in DOMAIN results :
        /\ results[id].title = "a" /\ results[id].citation = "a"
        /\ results[id].found_by[1] = "a"
        /\ "b" \in Range(results[id].found_by)
        /\ search_str = "b" /\ cur.id = id /\ cur.title = "b"
        /\ id \in processed

\* Per id, at most k detail fetches returned and at most k writes of the
\* results entry were made.
AtMostPerId(k) ==
    \A id \in Ids : LoadsReturned(id) <= k /\ putCalls[id] <= k

\* C16 as stated: with two interleaved searchFor calls whose writes to
\* results and the archive run under one lock, while the membership test
\* and the detail fetch of addArticle run outside it, no id has its detail
\* fetched twice and no results entry is written twice.
C16_WritesLockedNoDuplicate ==
    lockScope = "writes" => AtMostPerId(1)

\* C16 amended: with two interleaved searchFor calls, no id has a detail
\* fetch return twice and no results entry is written twice when the lock
\* encloses the whole loop body (membership test, detail fetch and writes);
\* when it encloses only the writes, an id found by both calls can be
\* fetched and written once by each call, and no more than that.
C16_SerializedLoopBody ==
    /\ lockScope = "all" => AtMostPerId(1)
    /\ lockScope = "writes" => AtMostPerId(Cardinality(Threads))

\* C16 witness: both calls ran to their end under the enclosing lock and
\* both found id 3, which was fetched and written once.
C16_Witness ==
    /\ lockScope = "all"
    /\ \A t \in Threads : tpc[t] = "done"
    /\ 3 \in DOMAIN results
    /\ {"a", "b"} \subseteq Range(results[3].found_by)
    /\ loadCalls[3] = 1 /\ putCalls[3] = 1

\* The page requests of the stream that returned, in order.
Returned == SelectSeq(requests, LAMBDA r : r.got >= 0)

RECURSIVE RowsGot(_)
RowsGot(reqs) ==
    IF reqs = <<>> THEN 0 ELSE Head(reqs).got + RowsGot(Tail(reqs))

\* C17: in every state of an opened stream, also after a failed page fetch
\* and over several scan_results traversals, articles is the concatenation
\* of the pages 1 .. results_page in page order: the pages that returned
\* are exactly 1, 2, ..., results_page, articles holds their rows, no page
\* is requested twice or skipped, and the request after a failed one asks
\* for the page that failed.
C17_PagesInOrder ==
    opened =>
        /\ Len(Returned) = results_page
        /\ \A k \in 1..Len(Returned) : Returned[k].page = k
        /\ Len(articles) = RowsGot(Returned)
        /\ \A k \in 2..Len(requests) :
              requests[k].page = IF requests[k - 1].got < 0
                                 THEN requests[k - 1].page
                                 ELSE requests[k - 1].page + 1

C19_DefaultSearch ==
    (nSearches > 0 /\ not_older_than = PyTrue) =>
        /\ status # "Exception"
        /\ query.set /\ fetches # <<>>
        /\ Cardinality(processed) <= YieldBound(n_results, limit)

====
